---- MODULE Spec2Model ----
(***************************************************************************)
(* Model of the section-ranking pipeline: the Diversity Selector           *)
(* (output_generator.generate_combined_output), the Duplicate Filter       *)
(* (RelevanceModel.filter_duplicates), the Heading Classifier and Section  *)
(* Assembler (pdf_parser.extract_headings_with_context) and the Extractive *)
(* Summarizer (summarizer.summarize_text).                                 *)
(*                                                                         *)
(* Text is modelled as a sequence of one-character strings, so that        *)
(* strip(), lower() and split() are computed and not assumed.              *)
(***************************************************************************)
EXTENDS Integers, Sequences, FiniteSets, TLC

VARIABLES
    pc,                 \* position of the modelled run
    documents,          \* generate_combined_output: the documents argument
    ranked_sections,    \* generate_combined_output: the (score, section) list
    doc_counts,         \* generate_combined_output: doc_counts
    seen_sections,      \* generate_combined_output: seen_sections
    final_sections,     \* generate_combined_output: final_sections
    decisions,          \* branch taken by pass 1 for each scanned list entry
    relaxed,            \* TRUE once the relaxation branch (line 63) was entered
    output,             \* the dictionary written to combined_output.json
    ranked_results,     \* filter_duplicates: the (score, section) list given
    similarity_threshold, \* filter_duplicates: the threshold, in tenths
    filtered,           \* filter_duplicates: the list returned
    seen_texts,         \* filter_duplicates: seen_texts of the last call
    kept,               \* positions of ranked_results that were retained
    refiltered,         \* filter_duplicates applied to its own result
    pdf,                \* extract_headings_with_context: the lines of the file
    spans_data,         \* extract_headings_with_context: the text lines read
    font_stats,         \* extract_headings_with_context: word count per font
    body_font,          \* extract_headings_with_context: (body_size, body_is_bold)
    sections,           \* extract_headings_with_context: sections assembled
    filtered_sections,  \* extract_headings_with_context: the list returned
    is_heading_result,  \* is_heading: the value returned for spans_data[1]
    full_text,          \* summarize_text: the text argument
    max_sentences,      \* summarize_text: the max_sentences argument
    sentences,          \* summarize_text: sentences
    importance,         \* summarize_text: importance, one weight per sentence
    ranked_indices,     \* summarize_text: ranked_indices
    summary,            \* summarize_text: the value returned
    query,              \* score_sections: the query argument
    scored_input,       \* score_sections: the sections argument
    model,              \* RelevanceModel.model: "loaded" or "None"
    clean_sections,     \* score_sections: clean_sections
    position_bonuses,   \* score_sections: position_bonuses
    tfidf_scores,       \* score_sections: tfidf_scores
    semantic_scores,    \* score_sections: semantic_scores
    results,            \* score_sections: the list returned
    listing,            \* main: os.listdir(input_dir), in the order returned
    next_file,          \* main: position of the loop over the listing
    failed_files,       \* main: the files whose extraction raised
    relevance_model,    \* main: model.model, "unset", "loaded" or "None"
    persona,            \* main: the persona argument
    job,                \* main: the job argument
    all_sections,       \* main: all_sections
    document_list,      \* main: document_list
    main_ranked,        \* main: ranked
    fallback,           \* main: TRUE once the except branch of line 98 ran
    writes,             \* number of times combined_output.json was written
    combined_output     \* the dictionary in combined_output.json, <<>> before it is written

selVars == <<documents, ranked_sections, doc_counts, seen_sections,
             final_sections, decisions, relaxed, output>>
dedupVars == <<ranked_results, similarity_threshold, filtered, seen_texts,
               kept, refiltered>>

parseVars == <<pdf, spans_data, font_stats, body_font, sections,
               filtered_sections, is_heading_result>>

sumVars == <<full_text, max_sentences, sentences, importance, ranked_indices,
             summary>>

scoreVars == <<query, scored_input, model, clean_sections, position_bonuses,
               tfidf_scores, semantic_scores, results>>

mainVars == <<listing, next_file, failed_files, relevance_model, persona, job,
              all_sections, document_list, main_ranked, fallback, writes,
              combined_output>>

vars == <<pc, selVars, dedupVars, parseVars, sumVars, scoreVars, mainVars>>

\* A component that takes no part in a run keeps its variables at rest.
SelIdle ==
    /\ documents = <<>>
    /\ ranked_sections = <<>>
    /\ doc_counts = <<>>
    /\ seen_sections = {}
    /\ final_sections = <<>>
    /\ decisions = <<>>
    /\ relaxed = FALSE
    /\ output = [extracted_sections |-> <<>>, subsection_analysis |-> <<>>,
                 written |-> FALSE]
DedupIdle ==
    /\ ranked_results = <<>>
    /\ similarity_threshold = 0
    /\ filtered = <<>>
    /\ seen_texts = <<>>
    /\ kept = <<>>
    /\ refiltered = <<>>
ParseIdle ==
    /\ pdf = <<>>
    /\ spans_data = <<>>
    /\ font_stats = <<>>
    /\ body_font = <<>>
    /\ sections = <<>>
    /\ filtered_sections = <<>>
    /\ is_heading_result = "none"
SumIdle ==
    /\ full_text = <<>>
    /\ max_sentences = 0
    /\ sentences = <<>>
    /\ importance = <<>>
    /\ ranked_indices = <<>>
    /\ summary = "none"
ScoreIdle ==
    /\ query = <<>>
    /\ scored_input = <<>>
    /\ model = "None"
    /\ clean_sections = <<>>
    /\ position_bonuses = <<>>
    /\ tfidf_scores = <<>>
    /\ semantic_scores = <<>>
    /\ results = <<>>
MainIdle ==
    /\ listing = <<>>
    /\ next_file = 0
    /\ failed_files = {}
    /\ relevance_model = "unset"
    /\ persona = <<>>
    /\ job = <<>>
    /\ all_sections = <<>>
    /\ document_list = <<>>
    /\ main_ranked = <<>>
    /\ fallback = FALSE
    /\ writes = 0
    /\ combined_output = <<>>
SelOther == <<dedupVars, parseVars, sumVars, scoreVars, mainVars>>
DedupOther == <<selVars, parseVars, sumVars, scoreVars, mainVars>>
ParseOther == <<selVars, dedupVars, sumVars, scoreVars, mainVars>>
SumOther == <<selVars, dedupVars, parseVars, scoreVars, mainVars>>
ScoreOther == <<selVars, dedupVars, parseVars, sumVars, mainVars>>
MainOther == <<selVars, dedupVars, parseVars, sumVars, scoreVars>>

----------------------------------------------------------------------------
(* Bounds of the model *)

MaxRanked == 6          \* longest ranked list given to the selector
MaxDocCount == 3        \* largest number of documents
MaxDedupLen == 4        \* longest list given to the duplicate filter
MaxTextLen == 4         \* longest line text given to is_heading alone
MaxLines == 5           \* most text lines of a document
MaxPieces == 4          \* most pieces a text given to the summarizer is made of
MaxScored == 3          \* longest list given to score_sections
MaxFiles == 3           \* most files of the input directory

----------------------------------------------------------------------------
(* Text helpers: str.strip, str.lower, len *)

Max(a, b) == IF a >= b THEN a ELSE b
Min(a, b) == IF a <= b THEN a ELSE b

Uppers == <<"A","B","C","D","E","F","G","H","I","J","K","L","M",
            "N","O","P","Q","R","S","T","U","V","W","X","Y","Z">>
Lowers == <<"a","b","c","d","e","f","g","h","i","j","k","l","m",
            "n","o","p","q","r","s","t","u","v","w","x","y","z">>
Digits == {"0","1","2","3","4","5","6","7","8","9"}

IsSpace(c) == c \in {" ", "\t", "\n"}
IsDigit(c) == c \in Digits

\* str.lower on the letters the model uses; other characters are unchanged.
UpperIndex == [c \in {Uppers[i] : i \in 1..26} |->
                  CHOOSE i \in 1..26 : Uppers[i] = c]
UpperSet == {Uppers[i] : i \in 1..26}
LowerSet == {Lowers[i] : i \in 1..26}
LowerChar(c) == IF c \in UpperSet THEN Lowers[UpperIndex[c]] ELSE c
IsUpper(c) == c \in UpperSet
IsLower(c) == c \in LowerSet
\* (In the helpers below a text is bound once, as the only element of a set,
\* before it is taken apart.)
LowerStr(s) ==
    CHOOSE lower \in { [i \in 1..Len(t) |-> LowerChar(t[i])] : t \in {s} } : TRUE

RECURSIVE LStrip(_)
LStrip(s) == IF s = <<>> THEN s
             ELSE IF IsSpace(Head(s)) THEN LStrip(Tail(s)) ELSE s

RECURSIVE RStrip(_)
RStrip(s) == IF s = <<>> THEN s
             ELSE IF IsSpace(s[Len(s)]) THEN RStrip(SubSeq(s, 1, Len(s) - 1)) ELSE s

Strip(s) ==
    CHOOSE stripped \in { RStrip(l) : l \in { LStrip(t) : t \in {s} } } : TRUE

----------------------------------------------------------------------------
(* Diversity Selector: output_generator.generate_combined_output *)

\* The sections a run can hand to the selector.  Lists hold references to
\* them, as the Python lists hold references to the section dictionaries.
T_Abc == <<"A", "b", "c">>
T_abc_sp == <<" ", "a", "b", "c", " ">>     \* same key as T_Abc
T_Xyz == <<"X", "y", "z">>
T_ab_sp == <<" ", "a", "b">>                \* two characters once stripped
T_Results_Overview == <<"R", "e", "s", "u", "l", "t", "s", " ",
                        "O", "v", "e", "r", "v", "i", "e", "w">>
T_Results_overview == <<"R", "e", "s", "u", "l", "t", "s", " ",
                        "o", "v", "e", "r", "v", "i", "e", "w">>
T_Data_Methods == <<"D", "a", "t", "a", " ", "M", "e", "t", "h", "o", "d", "s">>
T_blank == <<" ", " ">>
T_Table_of_Contents == <<"T", "a", "b", "l", "e", " ", "o", "f", " ", "C", "o", "n", "t", "e", "n", "t", "s">>
X_five == <<"x", " ", "x", " ", "x", " ", "x", " ", "x">>
X_ten == X_five \o <<" ">> \o X_five

SectionPool ==
    << [document |-> 1, section_title |-> T_Abc, page |-> 1],
       [document |-> 1, section_title |-> T_abc_sp, page |-> 1],
       [document |-> 1, section_title |-> T_Abc, page |-> 2],
       [document |-> 1, section_title |-> T_Xyz, page |-> 1],
       [document |-> 1, section_title |-> T_ab_sp, page |-> 1],
       [document |-> 2, section_title |-> T_Abc, page |-> 1],
       [document |-> 2, section_title |-> T_Abc, page |-> 2],
       [document |-> 2, section_title |-> T_Xyz, page |-> 1],
       \* sections with a context, as the parser returns them
       [document |-> 1, section_title |-> T_Results_Overview, context |-> X_ten,
        summary |-> X_ten, page |-> 1, text |-> T_Results_Overview],
       [document |-> 1, section_title |-> T_Results_overview, context |-> X_ten,
        summary |-> X_ten, page |-> 2, text |-> T_Results_overview],
       [document |-> 2, section_title |-> T_Data_Methods, context |-> X_ten,
        summary |-> X_ten, page |-> 1, text |-> T_Data_Methods],
       [document |-> 2, section_title |-> T_Xyz, context |-> X_ten,
        summary |-> X_ten, page |-> 2, text |-> T_Xyz],
       [document |-> 2, section_title |-> T_Data_Methods, context |-> X_five,
        summary |-> X_five, page |-> 12, text |-> T_Data_Methods],
       \* a section without heading
       [document |-> 1, section_title |-> T_blank, context |-> X_five,
        summary |-> X_five, page |-> 3, text |-> T_blank],
       \* a section that is not content
       [document |-> 3, section_title |-> T_Table_of_Contents, context |-> X_ten,
        summary |-> X_ten, page |-> 1, text |-> T_Table_of_Contents] >>

\* The sections the selector's own runs draw from.
SelectorRefs == 1..8

Section(ref) == SectionPool[ref]

max_sections == 5

MaxPerDocCeil(ndocs) == (max_sections + Max(ndocs, 1) - 1) \div Max(ndocs, 1)
MaxPerDoc(ndocs) == Max(1, max_sections \div Max(ndocs, 1))

SectionTitle(section) == Strip(section.section_title)
SectionKeyNoPage(section) ==
    <<section.document, LowerStr(SectionTitle(section)), 1>>
SectionKey(section) ==
    <<section.document, LowerStr(SectionTitle(section)), section.page>>

DocCount(counts, doc) == IF doc \in DOMAIN counts THEN counts[doc] ELSE 0
Increment(counts, doc) ==
    [d \in DOMAIN counts \cup {doc} |-> IF d = doc THEN DocCount(counts, doc) + 1
                                        ELSE counts[d]]

QuotaReachedOffByOne(counts, doc, max_per_doc) == DocCount(counts, doc) > max_per_doc
QuotaReached(counts, doc, max_per_doc) == DocCount(counts, doc) >= max_per_doc

TitleInvalidUnstripped(section) ==
    section.section_title = <<>> \/ Len(section.section_title) < 3
TitleInvalid(section) ==
    SectionTitle(section) = <<>> \/ Len(Strip(SectionTitle(section))) < 3

Pass1NeverFull(final) == FALSE
Pass1Full(final) == Len(final) >= max_sections

NeverRelax(final, ranked) == FALSE
RelaxCondition(final, ranked) ==
    Len(final) < max_sections /\ Len(ranked) > Len(final)

\* Lines 34-60: the first scan, from entry i on, with st the loop's variables.
RECURSIVE Pass1Scan(_, _, _, _)
Pass1Scan(ranked, i, st, max_per_doc) ==
    IF i > Len(ranked) THEN st
    ELSE LET section == Section(ranked[i].section)
             doc == section.document
             key == SectionKey(section)
         IN IF key \in st.seen_sections
            THEN Pass1Scan(ranked, i + 1,
                     [st EXCEPT !.decisions = Append(@, "seen")], max_per_doc)
            ELSE IF QuotaReached(st.doc_counts, doc, max_per_doc)
            THEN Pass1Scan(ranked, i + 1,
                     [st EXCEPT !.decisions = Append(@, "quota")], max_per_doc)
            ELSE IF TitleInvalid(section)
            THEN Pass1Scan(ranked, i + 1,
                     [st EXCEPT !.decisions = Append(@, "invalid")], max_per_doc)
            ELSE LET acc == [seen_sections |-> st.seen_sections \cup {key},
                             doc_counts |-> Increment(st.doc_counts, doc),
                             final_sections |-> Append(st.final_sections, ranked[i]),
                             decisions |-> Append(st.decisions, "accept")]
                 IN IF Pass1Full(acc.final_sections) THEN acc
                    ELSE Pass1Scan(ranked, i + 1, acc, max_per_doc)

\* Lines 66-82: the relaxation scan, from entry i on.
RECURSIVE Pass2Scan(_, _, _, _)
Pass2Scan(ranked, i, st, remaining_slots) ==
    IF i > Len(ranked) \/ remaining_slots <= 0 THEN st
    ELSE LET section == Section(ranked[i].section)
             key == SectionKey(section)
         IN IF key \in st.seen_sections
            THEN Pass2Scan(ranked, i + 1, st, remaining_slots)
            ELSE IF ~TitleInvalid(section)
            THEN Pass2Scan(ranked, i + 1,
                     [st EXCEPT !.seen_sections = @ \cup {key},
                                !.final_sections = Append(@, ranked[i])],
                     remaining_slots - 1)
            ELSE Pass2Scan(ranked, i + 1, st, remaining_slots)

\* Lines 85-91 and 94-115 (document and page of each entry).
ExtractedSectionsFromZero(final) ==
    [i \in 1..Len(final) |->
        [document |-> Section(final[i].section).document,
         section_title |-> Section(final[i].section).section_title,
         importance_rank |-> i - 1,
         page_number |-> Section(final[i].section).page]]
ExtractedSections(final) ==
    [i \in 1..Len(final) |->
        [document |-> Section(final[i].section).document,
         section_title |-> Section(final[i].section).section_title,
         importance_rank |-> i,
         page_number |-> Section(final[i].section).page]]
SubsectionAnalysis(final) ==
    [i \in 1..Len(final) |->
        [document |-> Section(final[i].section).document,
         page_number |-> Section(final[i].section).page]]

EmptyOutput == [extracted_sections |-> <<>>, subsection_analysis |-> <<>>,
                written |-> FALSE]

----------------------------------------------------------------------------
(* Inputs of the selector *)

\* Choices of n pairwise different sections of the pool, in every order.
InjSeqs(S, n) ==
    { q \in [1..n -> S] : \A i, j \in 1..n : q[i] = q[j] => i = j }

\* score_sections sorts by score, highest first (relevance_model.py:154).
ScoreAt(i, n) == (n - i) \div 2

RankedList(q) ==
    [i \in 1..Len(q) |-> [score |-> ScoreAt(i, Len(q)),
                          section |-> q[i]]]

InitSel ==
    /\ pc = "start"
    /\ \E n \in 0..MaxRanked : \E q \in InjSeqs(SelectorRefs, n) :
           ranked_sections = RankedList(q)
    /\ documents \in { [i \in 1..n |-> i] : n \in 1..MaxDocCount }
    /\ doc_counts = <<>>
    /\ seen_sections = {}
    /\ final_sections = <<>>
    /\ decisions = <<>>
    /\ relaxed = FALSE
    /\ output = EmptyOutput
    /\ DedupIdle
    /\ ParseIdle
    /\ SumIdle
    /\ ScoreIdle
    /\ MainIdle

\* Lines 19-24: nothing to rank, the empty output is written.
WriteEmpty ==
    /\ pc = "start"
    /\ ranked_sections = <<>>
    /\ pc' = "done"
    /\ output' = [EmptyOutput EXCEPT !.written = TRUE]
    /\ UNCHANGED <<documents, ranked_sections, doc_counts, seen_sections,
                   final_sections, decisions, relaxed>>
    /\ UNCHANGED SelOther

\* Lines 26-60: pass 1.
Pass1 ==
    /\ pc = "start"
    /\ ranked_sections # <<>>
    /\ \E st \in {Pass1Scan(ranked_sections, 1,
                     [seen_sections |-> {}, doc_counts |-> <<>>,
                      final_sections |-> <<>>, decisions |-> <<>>],
                     MaxPerDoc(Len(documents)))} :
          /\ seen_sections' = st.seen_sections
          /\ doc_counts' = st.doc_counts
          /\ final_sections' = st.final_sections
          /\ decisions' = st.decisions
    /\ pc' = "pass1_done"
    /\ UNCHANGED <<documents, ranked_sections, relaxed, output>>
    /\ UNCHANGED SelOther

\* Lines 62-123: pass 1 left seats empty, the relaxation pass fills them; the
\* two output lists are then built and written.
Pass2 ==
    /\ pc = "pass1_done"
    /\ RelaxCondition(final_sections, ranked_sections)
    /\ \E st \in {Pass2Scan(ranked_sections, 1,
                     [seen_sections |-> seen_sections,
                      final_sections |-> final_sections],
                     max_sections - Len(final_sections))} :
          /\ seen_sections' = st.seen_sections
          /\ final_sections' = st.final_sections
          /\ output' = [extracted_sections |-> ExtractedSections(st.final_sections),
                        subsection_analysis |-> SubsectionAnalysis(st.final_sections),
                        written |-> TRUE]
    /\ relaxed' = TRUE
    /\ pc' = "done"
    /\ UNCHANGED <<documents, ranked_sections, doc_counts, decisions>>
    /\ UNCHANGED SelOther

\* Lines 63, 84-123: no relaxation, the output lists are built and written.
WriteOutput ==
    /\ pc = "pass1_done"
    /\ ~RelaxCondition(final_sections, ranked_sections)
    /\ output' = [extracted_sections |-> ExtractedSections(final_sections),
                  subsection_analysis |-> SubsectionAnalysis(final_sections),
                  written |-> TRUE]
    /\ pc' = "done"
    /\ UNCHANGED <<documents, ranked_sections, doc_counts, seen_sections,
                   final_sections, decisions, relaxed>>
    /\ UNCHANGED SelOther

NextSel == WriteEmpty \/ Pass1 \/ Pass2 \/ WriteOutput

SpecSel == InitSel /\ [][NextSel]_vars

----------------------------------------------------------------------------
(* Duplicate Filter: RelevanceModel.filter_duplicates *)

\* str.split(): the maximal runs of non-whitespace characters, in order.
RECURSIVE SplitAcc(_, _, _)
SplitAcc(s, cur, acc) ==
    IF s = <<>> THEN (IF cur = <<>> THEN acc ELSE Append(acc, cur))
    ELSE IF IsSpace(Head(s))
         THEN SplitAcc(Tail(s), <<>>, IF cur = <<>> THEN acc ELSE Append(acc, cur))
         ELSE SplitAcc(Tail(s), Append(cur, Head(s)), acc)
SplitWords(s) ==
    CHOOSE words \in { SplitAcc(t, <<>>, <<>>) : t \in {s} } : TRUE
WordSet(s) ==
    UNION { { words[i] : i \in 1..Len(words) } : words \in {SplitWords(s)} }

H_abcd == <<"a", " ", "b", " ", "c", " ", "d">>
H_abc == <<"a", " ", "b", " ", "c">>
H_ABC == <<"A", " ", "B", " ", " ", "C", " ">>   \* H_abc but for case and spaces
H_abce == <<"a", " ", "b", " ", "c", " ", "e">>
H_blank == <<" ">>                                \* no token
H_xy == <<"X", " ", "y">>

\* The sections a run can hand to the filter (only the heading is read).
HeadingPool ==
    << [section_title |-> H_abcd], [section_title |-> H_abc],
       [section_title |-> H_ABC], [section_title |-> H_abce],
       [section_title |-> H_blank], [section_title |-> H_xy] >>

\* Line 167: the heading that is compared.
DedupHeadingCaseKept(ref) == Strip(HeadingPool[ref].section_title)
DedupHeading(ref) == Strip(LowerStr(HeadingPool[ref].section_title))

\* Lines 173-177: the overlap test; the threshold is given in tenths.
Overlaps(heading, seen_text, threshold) ==
    \E words1 \in {WordSet(heading)} : \E words2 \in {WordSet(seen_text)} :
        /\ words1 # {}
        /\ words2 # {}
        /\ Cardinality(words1 \cap words2) * 10
               > threshold * Cardinality(words1 \cup words2)

\* Line 164: seen_texts starts empty in every call.
StaleSeen(previous) == previous
FreshSeen(previous) == <<>>

\* Lines 166-183: the scan, from entry i on.
RECURSIVE FilterScan(_, _, _, _)
FilterScan(ranked, i, st, threshold) ==
    IF i > Len(ranked) THEN st
    ELSE IF \E k \in 1..Len(st.seen_texts) :
                Overlaps(DedupHeading(ranked[i].section), st.seen_texts[k], threshold)
         THEN FilterScan(ranked, i + 1, st, threshold)
         ELSE FilterScan(ranked, i + 1,
                  [filtered |-> Append(st.filtered, ranked[i]),
                   seen_texts |-> Append(st.seen_texts,
                                         DedupHeading(ranked[i].section)),
                   kept |-> Append(st.kept, i)],
                  threshold)

\* Lines 158-185.
FilterDuplicates(ranked, threshold, previous) ==
    IF ranked = <<>>
    THEN [filtered |-> ranked, seen_texts |-> previous, kept |-> <<>>]
    ELSE FilterScan(ranked, 1,
             [filtered |-> <<>>, seen_texts |-> FreshSeen(previous), kept |-> <<>>],
             threshold)

\* The thresholds in use: 0.7 at the call site (main.py:90), 0.8 by default.
Thresholds == {7, 8}

InitDedup ==
    /\ pc = "start"
    /\ SelIdle
    /\ ParseIdle
    /\ SumIdle
    /\ ScoreIdle
    /\ MainIdle
    /\ \E n \in 0..MaxDedupLen : \E q \in [1..n -> 1..Len(HeadingPool)] :
           ranked_results = [i \in 1..n |-> [score |-> ScoreAt(i, n),
                                             section |-> q[i]]]
    /\ similarity_threshold \in Thresholds
    /\ filtered = <<>>
    /\ seen_texts = <<>>
    /\ kept = <<>>
    /\ refiltered = <<>>

\* filter_duplicates(ranked_results, similarity_threshold)
Filter ==
    /\ pc = "start"
    /\ \E st \in {FilterDuplicates(ranked_results, similarity_threshold, seen_texts)} :
          /\ filtered' = st.filtered
          /\ seen_texts' = st.seen_texts
          /\ kept' = st.kept
    /\ pc' = "filtered"
    /\ UNCHANGED <<ranked_results, similarity_threshold, refiltered>>
    /\ UNCHANGED DedupOther

\* filter_duplicates(filtered, similarity_threshold): the filter run on its result
FilterAgain ==
    /\ pc = "filtered"
    /\ \E st \in {FilterDuplicates(filtered, similarity_threshold, seen_texts)} :
          /\ refiltered' = st.filtered
          /\ seen_texts' = st.seen_texts
    /\ pc' = "refiltered"
    /\ UNCHANGED <<ranked_results, similarity_threshold, filtered, kept>>
    /\ UNCHANGED DedupOther

NextDedup == Filter \/ FilterAgain

SpecDedup == InitDedup /\ [][NextDedup]_vars

----------------------------------------------------------------------------
(* Heading Classifier: pdf_parser.is_bullet_point and is_heading *)

\* Characters outside ASCII are written by their code point.
BulletStarts == {"<U+2022>", "<U+25CF>", "-", "*", "<U+25AA>", "<U+2023>",
                 "<U+27A4>", "<U+25E6>", "<U+2013>"}
SkipBullets == {"<U+2022>", "-", "<U+2013>", "<U+25CF>", "<U+25E6>", "<U+25AA>",
                "<U+2023>", "<U+27A4>", "*"}
RomanSet == {"i", "v", "x", "l", "c", "d", "m"}
SpaceSet == {" ", "\t", "\n"}

StartsWithAny(s, chars) == s # <<>> /\ s[1] \in chars
EndsWithAny(s, chars) == s # <<>> /\ s[Len(s)] \in chars
AllIn(s, chars) == \A i \in 1..Len(s) : s[i] \in chars
HasPrefix(s, w) == Len(s) >= Len(w) /\ SubSeq(s, 1, Len(w)) = w
Contains(s, w) ==
    \E t \in {s} : \E i \in 1..(Len(t) - Len(w) + 1) :
        SubSeq(t, i, i + Len(w) - 1) = w
\* Number of leading digits: what \d+ consumes at the start of s.
RECURSIVE DigitRun(_)
DigitRun(s) == IF s # <<>> /\ Head(s) \in Digits THEN 1 + DigitRun(Tail(s)) ELSE 0
CharAt(s, i) == IF i \in 1..Len(s) THEN s[i] ELSE "<none>"

\* ^\(?\d+[\.\)]
MatchNumberedItem(s) ==
    \E r \in {IF StartsWithAny(s, {"("}) THEN Tail(s) ELSE s} :
        DigitRun(r) >= 1 /\ CharAt(r, DigitRun(r) + 1) \in {".", ")"}
\* ^[a-zA-Z]\)
MatchLetterParen(s) ==
    StartsWithAny(s, UpperSet \cup LowerSet) /\ CharAt(s, 2) = ")"

\* Lines 7-15.
IsBulletPoint(text) ==
    \/ StartsWithAny(Strip(text), BulletStarts)
    \/ MatchNumberedItem(Strip(text))
    \/ MatchLetterParen(Strip(text))

W_figure == <<"f", "i", "g", "u", "r", "e">>
W_table == <<"t", "a", "b", "l", "e">>
W_fig == <<"f", "i", "g">>
W_tab == <<"t", "a", "b">>
W_see == <<"s", "e", "e">>
W_refer == <<"r", "e", "f", "e", "r">>
W_source == <<"s", "o", "u", "r", "c", "e">>
W_note == <<"n", "o", "t", "e">>
W_page == <<"p", "a", "g", "e">>
W_chapter == <<"c", "h", "a", "p", "t", "e", "r">>
W_section == <<"s", "e", "c", "t", "i", "o", "n">>
W_www == <<"w", "w", "w", ".">>
W_http == <<"h", "t", "t", "p">>
W_at == <<"@">>
W_copyright == <<"c", "o", "p", "y", "r", "i", "g", "h", "t">>
W_copysign == <<"<U+00A9>">>

\* Lines 90-105: the skip patterns, matched at the start of text.lower().
MatchesSkipPattern(low) ==
    \/ (low # <<>> /\ AllIn(low, Digits))                        \* ^\d+$
    \/ (low # <<>> /\ AllIn(low, RomanSet))                      \* ^[ivxlcdm]+$
    \/ (StartsWithAny(low, LowerSet) /\ CharAt(low, 2) \in {".", ")"})
    \/ (/\ Len(low) >= 3                                         \* ^\([^)]+\)$
        /\ low[1] = "("
        /\ low[Len(low)] = ")"
        /\ \A i \in 2..(Len(low) - 1) : low[i] # ")")
    \/ StartsWithAny(low, SkipBullets)
    \/ MatchNumberedItem(low)
    \/ MatchLetterParen(low)
    \/ AllIn(low, SpaceSet)                                      \* ^\s*$
    \/ \E w \in {W_figure, W_table, W_fig, W_tab} :
          HasPrefix(low, w) /\ CharAt(low, Len(w) + 1) \in SpaceSet \cup Digits
    \/ \E w \in {W_see, W_refer, W_source, W_note} :
          HasPrefix(low, w) /\ CharAt(low, Len(w) + 1) \in SpaceSet \cup {":"}

\* Lines 108-110.
HasFooterKeyword(low) ==
    \E w \in {W_page, W_chapter, W_section, W_www, W_http, W_at,
              W_copyright, W_copysign} : Contains(low, w)

\* ^[A-Z][a-z]+(\s+[A-Z][a-z]+)*$ on a stripped text
TitleCase(text) ==
    /\ text # <<>>
    /\ \A k \in 1..Len(SplitWords(text)) :
          \E w \in {SplitWords(text)[k]} :
              /\ Len(w) >= 2
              /\ w[1] \in UpperSet
              /\ \A i \in 2..Len(w) : w[i] \in LowerSet
\* Lines 131-138.
HasPositivePattern(text) ==
    \/ (DigitRun(text) >= 1                                      \* ^\d+[\.\s]
        /\ CharAt(text, DigitRun(text) + 1) \in {"."} \cup SpaceSet)
    \/ TitleCase(text)
    \/ (text # <<>> /\ AllIn(text, UpperSet \cup SpaceSet))      \* ^[A-Z\s]+$
    \/ (DigitRun(text) >= 1                                      \* ^\d+\.\d+
        /\ CharAt(text, DigitRun(text) + 1) = "."
        /\ CharAt(text, DigitRun(text) + 2) \in Digits)

\* Line 86.
NoTerminalCheck(text) == FALSE
EndsWithTerminal(text) == EndsWithAny(text, {".", "!", "?", ";"})

\* Lines 115-143: the font tests; sizes are in tenths of a point.
FontAccepts(text, main_span, body) ==
    \E is_larger \in {main_span.size >= body[1] + 5} :
    \E is_emphasized \in {main_span.is_bold /\ ~body[2]} :
        /\ is_larger \/ is_emphasized
        /\ text[1] \in UpperSet \cup Digits
        /\ \/ HasPositivePattern(text)
           \/ (is_larger /\ (is_emphasized \/ Len(SplitWords(text)) <= 8))

\* Lines 70-143: is_heading, with body the body font (body_size, body_is_bold).
IsHeadingText(text, line_spans, body) ==
    /\ ~IsBulletPoint(text)
    /\ ~(text = <<>> \/ Len(text) < 3)
    /\ ~(Len(SplitWords(text)) > 20)
    /\ ~EndsWithTerminal(text)
    /\ ~MatchesSkipPattern(LowerStr(text))
    /\ ~HasFooterKeyword(LowerStr(text))
    /\ line_spans # <<>>
    /\ FontAccepts(text, line_spans[1], body)
IsHeading(span_data, body) ==
    IsHeadingText(Strip(span_data.text), span_data.spans, body)

\* Lines 33-59: the entry of spans_data made of one line's spans.
RECURSIVE JoinSpans(_)
JoinSpans(line_spans) ==
    IF line_spans = <<>> THEN <<>>
    ELSE Head(line_spans).text \o <<" ">> \o JoinSpans(Tail(line_spans))
SpanData(line_spans, page) ==
    [text |-> Strip(JoinSpans(line_spans)), spans |-> line_spans, page |-> page]

\* Inputs of is_heading alone: every stripped text over these characters.
TextChars == {"A", "b", "1", " ", ".", "!", "?", ";"}
FontSizes == {100, 105}

InitHeading ==
    /\ pc = "start"
    /\ SelIdle
    /\ DedupIdle
    /\ SumIdle
    /\ ScoreIdle
    /\ MainIdle
    /\ \E n \in 1..MaxTextLen : \E t \in [1..n -> TextChars] :
       \E size \in FontSizes : \E bold \in BOOLEAN :
          /\ t = Strip(t)
          /\ spans_data = << SpanData(<<[text |-> t, size |-> size,
                                        is_bold |-> bold]>>, 1) >>
    /\ body_font \in FontSizes \X BOOLEAN
    /\ pdf = <<>>
    /\ font_stats = <<>>
    /\ sections = <<>>
    /\ filtered_sections = <<>>
    /\ is_heading_result = "none"

\* is_heading(spans_data[0])
ClassifyLine ==
    /\ pc = "start"
    /\ is_heading_result' = IsHeading(spans_data[1], body_font)
    /\ pc' = "classified"
    /\ UNCHANGED <<pdf, spans_data, font_stats, body_font, sections,
                   filtered_sections>>
    /\ UNCHANGED ParseOther

NextHeading == ClassifyLine

SpecHeading == InitHeading /\ [][NextHeading]_vars

----------------------------------------------------------------------------
(* Layout statistics and Section Assembler:                                *)
(* pdf_parser.extract_headings_with_context                                *)

\* Lines 50-51: font_stats[font_key] += words; the keys keep insertion order.
AddWords(stats, key, words) ==
    IF \E k \in 1..Len(stats) : stats[k].key = key
    THEN [k \in 1..Len(stats) |->
            IF stats[k].key = key
            THEN [key |-> key, words |-> stats[k].words + words]
            ELSE stats[k]]
    ELSE Append(stats, [key |-> key, words |-> words])

RECURSIVE SpanStats(_, _)
SpanStats(line_spans, stats) ==
    IF line_spans = <<>> THEN stats
    ELSE SpanStats(Tail(line_spans),
             AddWords(stats, <<Head(line_spans).size, Head(line_spans).is_bold>>,
                      Len(SplitWords(Head(line_spans).text))))

\* Lines 25-59 for the statistics: every span of every line, in reading order.
RECURSIVE FontStats(_, _)
FontStats(lines, stats) ==
    IF lines = <<>> THEN stats
    ELSE FontStats(Tail(lines), SpanStats(Head(lines).spans, stats))

\* Line 66: max(font_stats.keys(), key=...) returns the first key, in the
\* dictionary's order, that has the highest word count.
FirstMax(stats) ==
    stats[CHOOSE i \in 1..Len(stats) :
              /\ \A j \in 1..Len(stats) : stats[j].words <= stats[i].words
              /\ \A j \in 1..(i - 1) : stats[j].words < stats[i].words].key

RECURSIVE JoinWords(_)
JoinWords(texts) ==
    IF texts = <<>> THEN <<>>
    ELSE IF Len(texts) = 1 THEN texts[1]
    ELSE texts[1] \o <<" ">> \o JoinWords(Tail(texts))

\* Line 159: the summary is the context itself up to 40 words, and the
\* summarizer's result for it beyond.
SummaryOf(full_context) ==
    IF Len(SplitWords(full_context)) > 40
    THEN [summarize_text |-> full_context]
    ELSE full_context

\* Lines 156-166 and 177-187: the open section is saved when it has a body.
SaveSection(st) ==
    IF st.current_heading # "None" /\ st.current_heading # <<>>
       /\ st.current_context # <<>>
       /\ Strip(JoinWords(st.current_context)) # <<>>
    THEN Append(st.sections,
             [section_title |-> st.current_heading,
              context |-> Strip(JoinWords(st.current_context)),
              summary |-> SummaryOf(Strip(JoinWords(st.current_context))),
              page |-> st.current_page,
              text |-> st.current_heading])
    ELSE st.sections

\* Lines 177-187.
DropOpenSection(st) == st.sections
FinalSection(st) == SaveSection(st)

\* Lines 150-187: the scan of spans_data from entry i on.
RECURSIVE AssembleScan(_, _, _, _)
AssembleScan(lines, i, st, body) ==
    IF i > Len(lines) THEN FinalSection(st)
    ELSE IF IsHeading(lines[i], body)
         THEN AssembleScan(lines, i + 1,
                  [sections |-> SaveSection(st),
                   current_heading |-> lines[i].text,
                   current_context |-> <<>>,
                   current_page |-> lines[i].page], body)
         ELSE IF st.current_heading # "None" /\ st.current_heading # <<>>
         THEN AssembleScan(lines, i + 1,
                  [st EXCEPT !.current_context = Append(@, lines[i].text)], body)
         ELSE AssembleScan(lines, i + 1, st, body)

\* Line 190.
ContextAlwaysKept(section) == TRUE
ContextLongEnough(section) == Len(SplitWords(section.context)) >= 5

S_Abc == [text |-> <<"A", "b", "c">>, size |-> 120, is_bold |-> FALSE]
S_ABC == [text |-> <<"A", "B", "C">>, size |-> 100, is_bold |-> TRUE]
S_b == [text |-> <<"b">>, size |-> 100, is_bold |-> FALSE]
S_b2 == [text |-> <<"b", " ", "b">>, size |-> 100, is_bold |-> FALSE]
S_b5 == [text |-> <<"b", " ", "b", " ", "b", " ", "b", " ", "b">>,
         size |-> 100, is_bold |-> FALSE]

\* The lines a document is made of, each the list of its spans.
LinePool == << <<S_Abc>>, <<S_ABC>>, <<S_b>>, <<S_b5>>, <<S_b, S_b2>> >>

InitParse ==
    /\ pc = "start"
    /\ SelIdle
    /\ DedupIdle
    /\ SumIdle
    /\ ScoreIdle
    /\ MainIdle
    /\ \E n \in 0..MaxLines : \E q \in [1..n -> 1..Len(LinePool)] :
           pdf = [i \in 1..n |-> [spans |-> LinePool[q[i]], page |-> (i + 1) \div 2]]
    /\ spans_data = <<>>
    /\ font_stats = <<>>
    /\ body_font = <<>>
    /\ sections = <<>>
    /\ filtered_sections = <<>>
    /\ is_heading_result = "none"

\* Lines 18-67: the lines and the font statistics are collected; a file
\* without text returns no section, otherwise the body font is chosen.
Tokenize ==
    /\ pc = "start"
    /\ spans_data' = [i \in 1..Len(pdf) |-> SpanData(pdf[i].spans, pdf[i].page)]
    /\ \E stats \in {FontStats(pdf, <<>>)} :
          /\ font_stats' = stats
          /\ IF stats = <<>>
             THEN body_font' = <<>> /\ pc' = "returned"
             ELSE body_font' = FirstMax(stats) /\ pc' = "tokenized"
    /\ UNCHANGED <<pdf, sections, filtered_sections, is_heading_result>>
    /\ UNCHANGED ParseOther

\* Lines 145-187: the sections are built.
Assemble ==
    /\ pc = "tokenized"
    /\ sections' = AssembleScan(spans_data, 1,
                       [sections |-> <<>>, current_heading |-> "None",
                        current_context |-> <<>>, current_page |-> "None"],
                       body_font)
    /\ pc' = "assembled"
    /\ UNCHANGED <<pdf, spans_data, font_stats, body_font, filtered_sections,
                   is_heading_result>>
    /\ UNCHANGED ParseOther

\* Lines 189-193: the short sections are dropped and the rest returned.
FilterShort ==
    /\ pc = "assembled"
    /\ filtered_sections' = SelectSeq(sections, ContextLongEnough)
    /\ pc' = "returned"
    /\ UNCHANGED <<pdf, spans_data, font_stats, body_font, sections,
                   is_heading_result>>
    /\ UNCHANGED ParseOther

NextParse == Tokenize \/ Assemble \/ FilterShort

SpecParse == InitParse /\ [][NextParse]_vars

----------------------------------------------------------------------------
(* Extractive Summarizer: summarizer.summarize_text *)

\* Lines 8-10, clean_text: every run of whitespace becomes one space, and the
\* result is stripped.
RECURSIVE CollapseSpaces(_)
CollapseSpaces(s) ==
    IF s = <<>> THEN s
    ELSE IF IsSpace(Head(s))
         THEN <<" ">> \o CollapseSpaces(LStrip(s))
         ELSE <<Head(s)>> \o CollapseSpaces(Tail(s))
CleanText(s) == Strip(CollapseSpaces(s))

\* Line 14, nltk.sent_tokenize: a sentence ends at '.', '!' or '?' followed by
\* whitespace; the sentences are returned in order without the whitespace
\* between them, and what follows the last boundary is the last sentence.
SentenceEnds == {".", "!", "?"}
RECURSIVE SentScan(_, _, _)
SentScan(s, cur, acc) ==
    IF s = <<>>
    THEN (IF Strip(cur) = <<>> THEN acc ELSE Append(acc, Strip(cur)))
    ELSE IF Head(s) \in SentenceEnds /\ Len(s) >= 2 /\ IsSpace(s[2])
         THEN SentScan(Tail(s), <<>>, Append(acc, Strip(Append(cur, Head(s)))))
         ELSE SentScan(Tail(s), Append(cur, Head(s)), acc)
SentTokenize(s) == SentScan(s, <<>>, <<>>)

\* Lines 19-20, TfidfVectorizer(stop_words="english"): the terms of a sentence
\* are its lower-cased runs of two or more word characters that are not stop
\* words.
IsWordChar(c) == c \in UpperSet \/ c \in LowerSet \/ c \in Digits \/ c = "_"
RECURSIVE WordRuns(_, _, _)
WordRuns(s, cur, acc) ==
    IF s = <<>> THEN (IF cur = <<>> THEN acc ELSE acc \cup {cur})
    ELSE IF IsWordChar(Head(s))
         THEN WordRuns(Tail(s), Append(cur, Head(s)), acc)
         ELSE WordRuns(Tail(s), <<>>, IF cur = <<>> THEN acc ELSE acc \cup {cur})
\* The stop words that occur in the texts of the model.
StopWords == { <<"t", "h", "e">> }
Terms(sentence) ==
    { w \in WordRuns(LowerStr(sentence), <<>>, {}) : Len(w) >= 2 /\ w \notin StopWords }

\* Which sentences have a term.
HasTerms(sents) == [i \in 1..Len(sents) |-> Terms(sents[i]) # {}]

\* Line 20: fit_transform raises ValueError when no sentence has a term.
EmptyVocabulary(has) == \A i \in 1..Len(has) : ~has[i]

\* Line 23: the importance of a sentence is the sum of the TF-IDF weights of
\* its terms: zero without terms and positive with them.  The weights are the
\* vectorizer's; every assignment of a positive weight is an outcome.
Weights == {1, 2}
Importances(has) ==
    { [i \in 1..Len(has) |-> IF has[i] THEN w[i] ELSE 0] :
        w \in [1..Len(has) -> Weights] }

\* Line 24, np.argsort(importance)[::-1]: the indices by importance, highest
\* first; the order among equal weights is the sort's and is not fixed.
RECURSIVE IndexOrders(_)
IndexOrders(S) ==
    IF S = {} THEN {<<>>}
    ELSE UNION { { <<x>> \o r : r \in IndexOrders(S \ {x}) } : x \in S }
ArgsortDescending(imp, orders) ==
    { r \in orders : \A k \in 1..(Len(imp) - 1) : imp[r[k]] >= imp[r[k + 1]] }

\* Line 27, sorted(...): increasing order.
RECURSIVE SortedIndices(_)
SortedIndices(idx) ==
    IF idx = <<>> THEN <<>>
    ELSE LET m == CHOOSE x \in {idx[k] : k \in 1..Len(idx)} :
                      \A k \in 1..Len(idx) : x <= idx[k]
             Rest(x) == x # m
         IN <<m>> \o SortedIndices(SelectSeq(idx, Rest))

\* Line 27: the order in which the selected sentences are joined.
ScoreOrder(top) == top
OriginalOrder(top) == SortedIndices(top)

\* Line 27: top_sentences.
TopSentences(sents, ranked, k) ==
    LET order == OriginalOrder(SubSeq(ranked, 1, Min(k, Len(ranked))))
    IN [i \in 1..Len(order) |-> sents[order[i]]]

\* The pieces a text is made of: two sentences with terms, one of them with a
\* double space and a line break, a sentence without terms, and a fragment
\* without final punctuation.
P_AbCd == <<"A", "b", " ", "c", "d", ".", " ">>
P_EfGh == <<"E", "f", " ", " ", "g", "h", "!", "\n">>
P_TheB == <<"t", "h", "e", " ", "b", "?", " ">>
P_Xy == <<"X", "y">>
PiecePool == <<P_AbCd, P_EfGh, P_TheB, P_Xy>>

RECURSIVE Concat(_)
Concat(pieces) ==
    IF pieces = <<>> THEN <<>> ELSE Head(pieces) \o Concat(Tail(pieces))

\* Line 12: the values of max_sentences, the default 3 among them.
MaxSentencesArgs == {1, 2, 3}

InitSum ==
    /\ pc = "start"
    /\ \E n \in 0..MaxPieces : \E q \in [1..n -> 1..Len(PiecePool)] :
           full_text = Concat([i \in 1..n |-> PiecePool[q[i]]])
    /\ max_sentences \in MaxSentencesArgs
    /\ sentences = <<>>
    /\ importance = <<>>
    /\ ranked_indices = <<>>
    /\ summary = "none"
    /\ SelIdle
    /\ DedupIdle
    /\ ParseIdle
    /\ ScoreIdle
    /\ MainIdle

\* Lines 14-16: a text of at most max_sentences sentences is returned cleaned.
ReturnClean ==
    /\ pc = "start"
    /\ \E s \in {SentTokenize(full_text)} :
          /\ Len(s) <= max_sentences
          /\ sentences' = s
    /\ summary' = CleanText(full_text)
    /\ pc' = "summarized"
    /\ UNCHANGED <<full_text, max_sentences, importance, ranked_indices>>
    /\ UNCHANGED SumOther

\* Lines 14-20: the vectorizer finds no term and raises.
VectorizerRaises ==
    /\ pc = "start"
    /\ \E s \in {SentTokenize(full_text)} :
          /\ Len(s) > max_sentences
          /\ EmptyVocabulary(HasTerms(s))
          /\ sentences' = s
    /\ pc' = "raised"
    /\ UNCHANGED <<full_text, max_sentences, importance, ranked_indices, summary>>
    /\ UNCHANGED SumOther

\* Lines 14-28: the sentences are weighed and ranked, and the max_sentences
\* highest are joined and cleaned.
ReturnTop ==
    /\ pc = "start"
    /\ \E s \in {SentTokenize(full_text)} :
          /\ Len(s) > max_sentences
          /\ sentences' = s
          /\ \E has \in {HasTerms(s)} : \E orders \in {IndexOrders(1..Len(s))} :
             /\ ~EmptyVocabulary(has)
             /\ \E imp \in Importances(has) : \E r \in ArgsortDescending(imp, orders) :
                /\ importance' = imp
                /\ ranked_indices' = r
                /\ summary' = CleanText(JoinWords(TopSentences(s, r, max_sentences)))
    /\ pc' = "summarized"
    /\ UNCHANGED <<full_text, max_sentences>>
    /\ UNCHANGED SumOther

NextSum == ReturnClean \/ VectorizerRaises \/ ReturnTop

SpecSum == InitSum /\ [][NextSum]_vars

----------------------------------------------------------------------------
(* Relevance Scorer: RelevanceModel.score_sections *)

\* dict.get(field, default)
Get(section, field, default) ==
    IF field \in DOMAIN section THEN section[field] ELSE default

\* Lines 69 and 130: section.get("section_title", section.get("text", "")).
ScoreHeading(section) ==
    Get(section, "section_title", Get(section, "text", <<>>))
\* Lines 70 and 138: section.get("summary", section.get("context", "")).
ScoreSummary(section) ==
    Get(section, "summary", Get(section, "context", <<>>))

\* Lines 68-81: the sections with a heading, in the order given.
HasHeading(ref) == Strip(ScoreHeading(Section(ref))) # <<>>
CleanSections(sects) == SelectSeq(sects, HasHeading)

\* Lines 48-57, calculate_position_bonus: for the section at index i (from
\* 0) of the N sections given, max(0, (10 - page) / 10 * 0.1) plus
\* max(0, (N - i) / N * 0.05), held exactly as the fraction num / den.
PositionBonus(sects, i) ==
    [num |-> Len(sects) * Max(0, 10 - Get(Section(sects[i + 1]), "page", 10))
                 + 5 * Max(0, Len(sects) - i),
     den |-> 100 * Len(sects)]
CalculatePositionBonus(sects) ==
    [k \in 1..Len(sects) |-> PositionBonus(sects, k - 1)]

\* Lines 111-112 and 121-122: re.findall(r'\w+', text.lower()) as a set.
WordsOf(s) ==
    CHOOSE words \in { WordRuns(lower, <<>>, {}) : lower \in {LowerStr(s)} } : TRUE

\* Lines 76-77 and 121-122: the words of the enhanced text.  The keywords
\* that line 77 appends are whole words of the lower-cased heading and summary
\* and add no word to the set.
SectionWords(section) ==
    WordsOf(Strip(ScoreHeading(section)) \o <<".", " ">>
                \o Strip(ScoreSummary(section)))

\* Line 134: the words that mark a descriptive heading.
W_method == <<"m", "e", "t", "h", "o", "d">>
W_result == <<"r", "e", "s", "u", "l", "t">>
W_analysis == <<"a", "n", "a", "l", "y", "s", "i", "s">>
W_approach == <<"a", "p", "p", "r", "o", "a", "c", "h">>
W_technique == <<"t", "e", "c", "h", "n", "i", "q", "u", "e">>

\* Lines 130-135: heading_bonus, in units of 0.05.
HeadingBonus(section) ==
    (IF Len(SplitWords(ScoreHeading(section))) >= 2 THEN 1 ELSE 0)
    + (IF \E w \in {W_method, W_result, W_analysis, W_approach, W_technique} :
              Contains(LowerStr(ScoreHeading(section)), w)
       THEN 2 ELSE 0)

\* Lines 138-139: length_bonus = min(content_length / 100, 0.1), in units
\* of 0.01.
LengthBonus(section) == Min(Len(SplitWords(ScoreSummary(section))), 10)

\* Lines 123 and 142-149: total_score as an integer number of units of
\* 1 / (20000 * max(len(query_words), 1) * len(clean_sections)); the semantic
\* and the TF-IDF score are given in units of 1.
TotalScore(semantic_score, tfidf_score, overlap, nquery, n, position_bonus, heading_bonus, length_bonus) ==
    8000 * semantic_score * nquery * n
    + 6000 * tfidf_score * nquery * n
    + 400 * overlap * n
    + 20 * position_bonus.num * nquery
    + 50 * heading_bonus * nquery * n
    + 10 * length_bonus * nquery * n

\* Line 154, results.sort(reverse=True, key=...): by score, highest first,
\* entries of equal score in the order they had.
StaysBeforeAscending(x, e) == x.score <= e.score
StaysBefore(x, e) == x.score >= e.score
RECURSIVE InsertByScore(_, _)
InsertByScore(sorted, e) ==
    IF sorted = <<>> THEN <<e>>
    ELSE IF StaysBefore(Head(sorted), e)
         THEN <<Head(sorted)>> \o InsertByScore(Tail(sorted), e)
         ELSE <<e>> \o sorted
RECURSIVE SortByScore(_, _)
SortByScore(entries, sorted) ==
    IF entries = <<>> THEN sorted
    ELSE CHOOSE result \in
             { SortByScore(Tail(entries), longer) :
                   longer \in {InsertByScore(sorted, Head(entries))} } : TRUE

\* Lines 110-156: the results for the scores the two backends gave.
ScoreResults(q, clean, bonuses, tfidf, semantic) ==
    CHOOSE sorted \in
        { SortByScore(entries, <<>>) :
            entries \in
            { [k \in 1..Len(clean) |->
                  [score |-> TotalScore(
                       IF k <= Len(semantic) THEN semantic[k] ELSE 0,
                       IF k <= Len(tfidf) THEN tfidf[k] ELSE 0,
                       Cardinality(query_words \cap SectionWords(Section(clean[k]))),
                       Max(Cardinality(query_words), 1),
                       Len(clean),
                       IF k \in DOMAIN bonuses THEN bonuses[k]
                                               ELSE [num |-> 0, den |-> 1],
                       HeadingBonus(Section(clean[k])),
                       LengthBonus(Section(clean[k]))),
                   section |-> clean[k]]] :
              query_words \in {WordsOf(q)} } } : TRUE

\* The similarities a backend can give, in units of 1.
BackendScores == {0, 1}

\* The queries: main.py:82 builds "Persona: <persona>. Task: <job>".
Q_none == <<>>
Q_results == <<"P", "e", "r", "s", "o", "n", "a", ":", " ", "x", ".", " ",
               "T", "a", "s", "k", ":", " ", "r", "e", "s", "u", "l", "t", "s">>
Queries == {Q_none, Q_results}

\* The sections a list given to score_sections is made of.
ScoredRefs == {1, 6, 9, 11, 14}

InitScore ==
    /\ pc = "start"
    /\ \E n \in 0..MaxScored : \E q \in InjSeqs(ScoredRefs, n) : scored_input = q
    /\ query \in Queries
    /\ model \in {"loaded", "None"}
    /\ clean_sections = <<>>
    /\ position_bonuses = <<>>
    /\ tfidf_scores = <<>>
    /\ semantic_scores = <<>>
    /\ results = <<>>
    /\ SelIdle
    /\ DedupIdle
    /\ ParseIdle
    /\ SumIdle
    /\ MainIdle

\* Lines 60-61 and 83-84: nothing to score.
ReturnNoResults ==
    /\ pc = "start"
    /\ CleanSections(scored_input) = <<>>
    /\ results' = <<>>
    /\ pc' = "scored"
    /\ UNCHANGED <<query, scored_input, model, clean_sections, position_bonuses,
                   tfidf_scores, semantic_scores>>
    /\ UNCHANGED ScoreOther

\* Lines 63-87: the sections with a heading and their position bonuses.
PrepareCorpus ==
    /\ pc = "start"
    /\ \E clean \in {CleanSections(scored_input)} :
          /\ clean # <<>>
          /\ clean_sections' = clean
          /\ position_bonuses' = CalculatePositionBonus(clean)
    /\ pc' = "prepared"
    /\ UNCHANGED <<query, scored_input, model, tfidf_scores, semantic_scores,
                   results>>
    /\ UNCHANGED ScoreOther

\* Lines 89-93: the vectorizer gives one similarity per section.
TfidfScores ==
    /\ pc = "prepared"
    /\ tfidf_scores' \in [1..Len(clean_sections) -> BackendScores]
    /\ pc' = "tfidf_done"
    /\ UNCHANGED <<query, scored_input, model, clean_sections, position_bonuses,
                   semantic_scores, results>>
    /\ UNCHANGED ScoreOther

\* Lines 94-95: the vectorizer raised, every similarity is zero.
TfidfFails ==
    /\ pc = "prepared"
    /\ tfidf_scores' = [k \in 1..Len(clean_sections) |-> 0]
    /\ pc' = "tfidf_done"
    /\ UNCHANGED <<query, scored_input, model, clean_sections, position_bonuses,
                   semantic_scores, results>>
    /\ UNCHANGED ScoreOther

\* Lines 99-102: the embedding model gives one similarity per section.
SemanticScores ==
    /\ pc = "tfidf_done"
    /\ model = "loaded"
    /\ semantic_scores' \in [1..Len(clean_sections) -> BackendScores]
    /\ pc' = "semantic_done"
    /\ UNCHANGED <<query, scored_input, model, clean_sections, position_bonuses,
                   tfidf_scores, results>>
    /\ UNCHANGED ScoreOther

\* Lines 103-108: without a model, or when it raises, the TF-IDF similarities
\* are used.
SemanticFallback ==
    /\ pc = "tfidf_done"
    /\ semantic_scores' = tfidf_scores
    /\ pc' = "semantic_done"
    /\ UNCHANGED <<query, scored_input, model, clean_sections, position_bonuses,
                   tfidf_scores, results>>
    /\ UNCHANGED ScoreOther

\* Lines 110-156: the scores are combined and the results sorted.
CombineScores ==
    /\ pc = "semantic_done"
    /\ results' = ScoreResults(query, clean_sections, position_bonuses,
                               tfidf_scores, semantic_scores)
    /\ pc' = "scored"
    /\ UNCHANGED <<query, scored_input, model, clean_sections, position_bonuses,
                   tfidf_scores, semantic_scores>>
    /\ UNCHANGED ScoreOther

NextScore ==
    \/ ReturnNoResults \/ PrepareCorpus \/ TfidfScores \/ TfidfFails
    \/ SemanticScores \/ SemanticFallback \/ CombineScores

SpecScore == InitScore /\ [][NextScore]_vars

----------------------------------------------------------------------------
(* The pipeline: main.validate_section and main.main *)

\* Lines 26-31: skip_headings.
SkipHeadings ==
    { <<"a", "c", "k", "n", "o", "w", "l", "e", "d", "g", "m", "e", "n", "t">>,
      <<"a", "c", "k", "n", "o", "w", "l", "e", "d", "g", "m", "e", "n", "t", "s">>,
      <<"r", "e", "f", "e", "r", "e", "n", "c", "e", "s">>,
      <<"b", "i", "b", "l", "i", "o", "g", "r", "a", "p", "h", "y">>,
      <<"t", "a", "b", "l", "e", " ", "o", "f", " ", "c", "o", "n", "t", "e", "n", "t", "s">>,
      <<"i", "n", "d", "e", "x">>,
      <<"a", "p", "p", "e", "n", "d", "i", "x">>,
      <<"g", "l", "o", "s", "s", "a", "r", "y">>,
      <<"a", "b", "o", "u", "t", " ", "t", "h", "e", " ", "a", "u", "t", "h", "o", "r">>,
      <<"a", "b", "o", "u", "t", " ", "t", "h", "i", "s", " ", "b", "o", "o", "k">>,
      <<"c", "o", "p", "y", "r", "i", "g", "h", "t">>,
      <<"i", "n", "t", "r", "o", "d", "u", "c", "t", "i", "o", "n">>,
      <<"p", "r", "e", "f", "a", "c", "e">>,
      <<"f", "o", "r", "e", "w", "o", "r", "d">> }

\* Lines 8-36: validate_section.
ValidateSection(section) ==
    LET heading == Strip(Get(section, "section_title", Get(section, "text", <<>>)))
        context == Strip(Get(section, "context", <<>>))
    IN /\ heading # <<>>
       /\ context # <<>>
       /\ Len(SplitWords(heading)) >= 2
       /\ Len(SplitWords(context)) >= 10
       /\ Strip(LowerStr(heading)) \notin SkipHeadings

\* The files an input directory can hold: what extract_headings_with_context
\* returns for each, and the name main.py:59 writes into its sections (the
\* document of the sections listed).
FilePool ==
    << [name |-> "a.pdf", is_pdf |-> TRUE, document |-> 1, sections |-> <<9, 10>>],
       [name |-> "b.pdf", is_pdf |-> TRUE, document |-> 2, sections |-> <<12, 11, 13>>],
       [name |-> "c.pdf", is_pdf |-> TRUE, document |-> 3, sections |-> <<15>>],
       [name |-> "notes.txt", is_pdf |-> FALSE, document |-> 0, sections |-> <<>>] >>

\* Lines 55-62: the valid sections of a file, in order.
IsValidRef(ref) == ValidateSection(Section(ref))
ValidSections(file) == SelectSeq(FilePool[file].sections, IsValidRef)

\* Line 82: enhanced_query.
EnhancedQuery(p, j) ==
    <<"P", "e", "r", "s", "o", "n", "a", ":", " ">> \o p
        \o <<".", " ", "T", "a", "s", "k", ":", " ">> \o j

\* Line 167 for a section of the pipeline: the heading that is compared.
RankedHeading(entry) == Strip(LowerStr(ScoreHeading(Section(entry.section))))

\* relevance_model.py:166-183 for the list main.py:90 passes, with the
\* threshold in tenths.
RECURSIVE FilterRanked(_, _, _, _)
FilterRanked(rk, i, st, threshold) ==
    IF i > Len(rk) THEN st.filtered
    ELSE IF \E k \in 1..Len(st.seen_texts) :
                Overlaps(RankedHeading(rk[i]), st.seen_texts[k], threshold)
         THEN FilterRanked(rk, i + 1, st, threshold)
         ELSE FilterRanked(rk, i + 1,
                  [filtered |-> Append(st.filtered, rk[i]),
                   seen_texts |-> Append(st.seen_texts, RankedHeading(rk[i]))],
                  threshold)

\* Line 100: the score 0.5 of every section of the fallback list, in the
\* units of TotalScore.
FallbackRanked(q, sects) ==
    CHOOSE entries \in
        { [k \in 1..Len(sects) |->
              [score |-> 10000 * Max(Cardinality(query_words), 1) * Len(sects),
               section |-> sects[k]]] : query_words \in {WordsOf(q)} } : TRUE

\* output_generator.py:26-82: the selection of generate_combined_output.
FinalSections(docs, rk) ==
    CHOOSE final \in
        { IF RelaxCondition(st.final_sections, rk)
          THEN Pass2Scan(rk, 1,
                   [seen_sections |-> st.seen_sections,
                    final_sections |-> st.final_sections],
                   max_sections - Len(st.final_sections)).final_sections
          ELSE st.final_sections :
            st \in { Pass1Scan(rk, 1,
                         [seen_sections |-> {}, doc_counts |-> <<>>,
                          final_sections |-> <<>>, decisions |-> <<>>],
                         MaxPerDoc(Len(docs))) } } : TRUE

\* output_generator.py:9-14: the metadata.
MetadataWithoutDocuments(docs, p, j) ==
    [input_documents |-> <<>>, persona |-> p, job_to_be_done |-> j,
     processing_timestamp |-> "utcnow"]
Metadata(docs, p, j) ==
    [input_documents |-> docs, persona |-> p, job_to_be_done |-> j,
     processing_timestamp |-> "utcnow"]

\* output_generator.py:5-126: the dictionary generate_combined_output writes.
CombinedOutput(docs, p, j, rk) ==
    IF rk = <<>>
    THEN [metadata |-> Metadata(docs, p, j),
          extracted_sections |-> <<>>,
          subsection_analysis |-> <<>>]
    ELSE CHOOSE written \in
             { [metadata |-> Metadata(docs, p, j),
                extracted_sections |-> ExtractedSections(final),
                subsection_analysis |-> SubsectionAnalysis(final)] :
                   final \in {FinalSections(docs, rk)} } : TRUE

\* Lines 68-70: after a failed extraction the loop goes on with the next file.
AbortOnFailure(position) == "aborted"
ContinueAfterFailure(position) == position

Personas == { <<"x">> }
Jobs == { <<"r", "e", "s", "u", "l", "t", "s">> }

InitMain ==
    /\ pc = "main"
    /\ \E n \in 0..MaxFiles : \E q \in InjSeqs(1..Len(FilePool), n) : listing = q
    /\ persona \in Personas
    /\ job \in Jobs
    /\ next_file = 1
    /\ failed_files = {}
    /\ relevance_model = "unset"
    /\ all_sections = <<>>
    /\ document_list = <<>>
    /\ main_ranked = <<>>
    /\ fallback = FALSE
    /\ writes = 0
    /\ combined_output = <<>>
    /\ SelIdle
    /\ DedupIdle
    /\ ParseIdle
    /\ SumIdle
    /\ ScoreIdle

\* Line 41 and relevance_model.py:10-13: the embedding model is loaded.
LoadModel ==
    /\ pc = "main"
    /\ relevance_model' = "loaded"
    /\ pc' = "listing"
    /\ UNCHANGED <<listing, next_file, failed_files, persona, job, all_sections,
                   document_list, main_ranked, fallback, writes, combined_output>>
    /\ UNCHANGED MainOther

\* Line 41 and relevance_model.py:14-17: loading raised, the model is None.
LoadModelFails ==
    /\ pc = "main"
    /\ relevance_model' = "None"
    /\ pc' = "listing"
    /\ UNCHANGED <<listing, next_file, failed_files, persona, job, all_sections,
                   document_list, main_ranked, fallback, writes, combined_output>>
    /\ UNCHANGED MainOther

\* Lines 46-47: a file that is no PDF is passed over.
SkipOtherFile ==
    /\ pc = "listing"
    /\ next_file <= Len(listing)
    /\ ~FilePool[listing[next_file]].is_pdf
    /\ next_file' = next_file + 1
    /\ UNCHANGED <<pc, listing, failed_files, relevance_model, persona, job,
                   all_sections, document_list, main_ranked, fallback, writes,
                   combined_output>>
    /\ UNCHANGED MainOther

\* Lines 48-66: the sections of a PDF are extracted, the valid ones are kept.
ProcessFile ==
    /\ pc = "listing"
    /\ next_file <= Len(listing)
    /\ FilePool[listing[next_file]].is_pdf
    /\ all_sections' = all_sections \o ValidSections(listing[next_file])
    /\ document_list' = Append(document_list, FilePool[listing[next_file]].name)
    /\ next_file' = next_file + 1
    /\ UNCHANGED <<pc, listing, failed_files, relevance_model, persona, job,
                   main_ranked, fallback, writes, combined_output>>
    /\ UNCHANGED MainOther

\* Lines 51-52 and 68-70: the extraction of a PDF raises.
ExtractionFails ==
    /\ pc = "listing"
    /\ next_file <= Len(listing)
    /\ FilePool[listing[next_file]].is_pdf
    /\ failed_files' = failed_files \cup {listing[next_file]}
    /\ next_file' = next_file + 1
    /\ pc' = ContinueAfterFailure(pc)
    /\ UNCHANGED <<listing, relevance_model, persona, job, all_sections,
                   document_list, main_ranked, fallback, writes, combined_output>>
    /\ UNCHANGED MainOther

\* Lines 72-76: no valid section, the empty output is written.
NoValidSections ==
    /\ pc = "listing"
    /\ next_file > Len(listing)
    /\ all_sections = <<>>
    /\ combined_output' = <<CombinedOutput(document_list, persona, job, <<>>)>>
    /\ writes' = writes + 1
    /\ pc' = "returned"
    /\ UNCHANGED <<listing, next_file, failed_files, relevance_model, persona,
                   job, all_sections, document_list, main_ranked, fallback>>
    /\ UNCHANGED MainOther

\* Lines 78-86: score_sections is called with the enhanced query and every
\* valid section; its steps are those of the scorer above. It never returns
\* at lines 60-61 or 83-84 here, a valid section having a heading.
CallScoreSections ==
    /\ pc = "listing"
    /\ next_file > Len(listing)
    /\ all_sections # <<>>
    /\ query' = EnhancedQuery(persona, job)
    /\ scored_input' = all_sections
    /\ model' = relevance_model
    /\ pc' = "start"
    /\ UNCHANGED <<clean_sections, position_bonuses, tfidf_scores,
                   semantic_scores, results>>
    /\ UNCHANGED <<selVars, dedupVars, parseVars, sumVars, mainVars>>

\* score_sections is left, by return or by an exception: its arguments and
\* locals are gone.
LeaveScoreSections ==
    /\ query' = <<>>
    /\ scored_input' = <<>>
    /\ model' = "None"
    /\ clean_sections' = <<>>
    /\ position_bonuses' = <<>>
    /\ tfidf_scores' = <<>>
    /\ semantic_scores' = <<>>
    /\ results' = <<>>

\* Lines 86 and 90: score_sections returned, filter_duplicates is called with
\* the threshold 0.7.
RemoveDuplicates ==
    /\ pc = "scored"
    /\ relevance_model # "unset"
    /\ main_ranked' = FilterRanked(results, 1,
                          [filtered |-> <<>>, seen_texts |-> <<>>], 7)
    /\ pc' = "ranked"
    /\ LeaveScoreSections
    /\ UNCHANGED <<listing, next_file, failed_files, relevance_model, persona,
                   job, all_sections, document_list, fallback, writes,
                   combined_output>>
    /\ UNCHANGED <<selVars, dedupVars, parseVars, sumVars>>

\* The positions of main between lines 85 and 90.
ScoringPositions == {"start", "prepared", "tfidf_done", "semantic_done", "scored"}

\* Lines 98-100: scoring or filtering raised, every section gets the score 0.5.
ScoringRaises ==
    /\ pc \in ScoringPositions
    /\ relevance_model # "unset"
    /\ main_ranked' = FallbackRanked(EnhancedQuery(persona, job), all_sections)
    /\ fallback' = TRUE
    /\ pc' = "ranked"
    /\ LeaveScoreSections
    /\ UNCHANGED <<listing, next_file, failed_files, relevance_model, persona,
                   job, all_sections, document_list, writes, combined_output>>
    /\ UNCHANGED <<selVars, dedupVars, parseVars, sumVars>>

\* Lines 102-105: the output is generated and main returns.
GenerateOutput ==
    /\ pc = "ranked"
    /\ combined_output' = <<CombinedOutput(document_list, persona, job, main_ranked)>>
    /\ writes' = writes + 1
    /\ pc' = "returned"
    /\ UNCHANGED <<listing, next_file, failed_files, relevance_model, persona,
                   job, all_sections, document_list, main_ranked, fallback>>
    /\ UNCHANGED MainOther

NextMain ==
    \/ LoadModel \/ LoadModelFails \/ SkipOtherFile \/ ProcessFile
    \/ ExtractionFails \/ NoValidSections \/ CallScoreSections
    \/ ScoringRaises \/ PrepareCorpus \/ TfidfScores \/ TfidfFails
    \/ SemanticScores \/ SemanticFallback \/ CombineScores
    \/ RemoveDuplicates \/ GenerateOutput

SpecMain == InitMain /\ [][NextMain]_vars

\* main runs to its end: no step of it waits for anything.
SpecMainFair == SpecMain /\ WF_vars(NextMain)

----------------------------------------------------------------------------
(* Properties of the Diversity Selector, stated on their own terms *)

\* The key and the validity of a section as section 4.7 words them.
PoolKeys ==
    [ref \in DOMAIN SectionPool |->
        <<SectionPool[ref].document,
          LowerStr(Strip(SectionPool[ref].section_title)),
          SectionPool[ref].page>>]
PoolHeadingLengths ==
    [ref \in DOMAIN SectionPool |-> Len(Strip(SectionPool[ref].section_title))]
KeyOf(ref) == PoolKeys[ref]
HeadingLongEnough(ref) == PoolHeadingLengths[ref] >= 3

\* K: the distinct keys of the input list whose trimmed heading has >= 3 characters.
UsableKeys ==
    { KeyOf(ranked_sections[i].section) :
        i \in { j \in 1..Len(ranked_sections) :
                  HeadingLongEnough(ranked_sections[j].section) } }

FloorQuota == Max(1, max_sections \div Len(documents))
CeilQuota == (max_sections + Len(documents) - 1) \div Len(documents)

DocOf(entry) == SectionPool[entry.section].document
SelectedFrom(doc) ==
    Cardinality({ i \in 1..Len(final_sections) : DocOf(final_sections[i]) = doc })
\* Sections of doc that pass 1 accepted before it came to list entry i.
AcceptedBefore(doc, i) ==
    Cardinality({ j \in 1..(i - 1) :
                    decisions[j] = "accept" /\ DocOf(ranked_sections[j]) = doc })
Pass1Accepted == Cardinality({ j \in 1..Len(decisions) : decisions[j] = "accept" })

\* C1: the selector emits at most maxSections = 5 entries in extracted_sections
\* and at most 5 in subsection_analysis, whatever the list and the documents.
C1_AtMostMaxSections ==
    /\ Len(final_sections) <= max_sections
    /\ Len(output.extracted_sections) <= max_sections
    /\ Len(output.subsection_analysis) <= max_sections

\* More usable keys than seats, and exactly five entries were written.
C1_Witness ==
    /\ pc = "done"
    /\ Cardinality(UsableKeys) > max_sections
    /\ Len(output.extracted_sections) = max_sections
    /\ Len(output.subsection_analysis) = max_sections

\* C2 as claimed: in pass 1 a section whose key is new is skipped for quota
\* reasons exactly when its document already has ceil(5 / documentCount)
\* accepted sections.
C2_QuotaIsCeil ==
    \A i \in 1..Len(decisions) :
        decisions[i] # "seen" =>
            (decisions[i] = "quota"
                <=> AcceptedBefore(DocOf(ranked_sections[i]), i) >= CeilQuota)

\* C2 as amended: the quota of pass 1 is max(1, floor(5 / documentCount)); a
\* section whose key is new is skipped for quota reasons exactly when its
\* document already has that many accepted sections, and never more.
C2_QuotaIsFloor ==
    \A i \in 1..Len(decisions) :
        /\ AcceptedBefore(DocOf(ranked_sections[i]), i) <= FloorQuota
        /\ decisions[i] # "seen" =>
              (decisions[i] = "quota"
                  <=> AcceptedBefore(DocOf(ranked_sections[i]), i) = FloorQuota)

\* Two documents: a section is turned away once its document has two accepted.
C2_Witness ==
    /\ Len(documents) = 2
    /\ \E i \in 1..Len(decisions) :
          /\ decisions[i] = "quota"
          /\ AcceptedBefore(DocOf(ranked_sections[i]), i) = 2

\* C3: a document exceeds the per-document quota in the final selection only if
\* the relaxation pass ran, and that pass runs only after pass 1 scanned the
\* whole list and accepted fewer than maxSections; when pass 1 alone fills the
\* five seats no document exceeds the quota.
C3_OverQuotaOnlyByRelaxation ==
    /\ (\E d \in 1..2 : SelectedFrom(d) > FloorQuota) => relaxed
    /\ (\E d \in 1..2 : SelectedFrom(d) > CeilQuota) => relaxed
    /\ relaxed => /\ Len(decisions) = Len(ranked_sections)
                  /\ Pass1Accepted < max_sections
    /\ (pc # "start" /\ Pass1Accepted = max_sections) =>
           /\ ~relaxed
           /\ \A d \in 1..2 : SelectedFrom(d) <= FloorQuota

\* Relaxation ran and left a document above both readings of the quota.
C3_Witness ==
    /\ pc = "done"
    /\ relaxed
    /\ \E d \in 1..2 : SelectedFrom(d) > CeilQuota

\* C4: the number of selected sections is min(maxSections, K), K being the
\* number of distinct usable keys of the input list.
C4_NoEmptySeat ==
    pc = "done" =>
        Len(final_sections) = Min(max_sections, Cardinality(UsableKeys))

\* Pass 1 under-filled with everything usable in one document's reach and the
\* relaxation pass filled the five seats.
C4_Witness ==
    /\ pc = "done"
    /\ relaxed
    /\ Pass1Accepted < max_sections
    /\ Cardinality(UsableKeys) > max_sections
    /\ Len(final_sections) = max_sections

----------------------------------------------------------------------------
(* Properties of the Duplicate Filter *)

\* Lower-cased whitespace tokens of the heading at position i of the input.
TokensAt(i) == WordSet(LowerStr(HeadingPool[ranked_results[i].section].section_title))
\* Jaccard similarity of the headings at i and j exceeds the threshold.
SimilarAt(i, j) ==
    /\ TokensAt(i) # {}
    /\ TokensAt(j) # {}
    /\ Cardinality(TokensAt(i) \cap TokensAt(j)) * 10
           > similarity_threshold * Cardinality(TokensAt(i) \cup TokensAt(j))
KeptSet == { kept[k] : k \in 1..Len(kept) }
CaseVariants(i, j) ==
    /\ HeadingPool[ranked_results[i].section] # HeadingPool[ranked_results[j].section]
    /\ TokensAt(i) = TokensAt(j)
    /\ TokensAt(i) # {}

\* C5: filter_duplicates is idempotent: run on its own result with the same
\* threshold it returns the same sections in the same order.
C5_Idempotent ==
    pc = "refiltered" => refiltered = filtered

\* The first run dropped something and kept at least two sections.
C5_Witness ==
    /\ pc = "refiltered"
    /\ Len(filtered) < Len(ranked_results)
    /\ Len(filtered) >= 2

----------------------------------------------------------------------------
(* Properties of the Heading Classifier *)

LineEndsInTerminal ==
    spans_data[1].text[Len(spans_data[1].text)] \in {".", "!", "?", ";"}
LineIsLarger == spans_data[1].spans[1].size >= body_font[1] + 5

\* C8: is_heading never returns True for a line whose text ends in '.', '!',
\* '?' or ';', whatever the font size, the boldness and the body font, also
\* when the line matches a positive structural pattern.
C8_NoTerminalPunctuation ==
    (pc = "classified" /\ LineEndsInTerminal) => is_heading_result = FALSE

\* A larger line that starts as a numbered heading, ends in terminal
\* punctuation and was rejected.
C8_Witness ==
    /\ pc = "classified"
    /\ LineEndsInTerminal
    /\ LineIsLarger
    /\ spans_data[1].text[1] = "1"
    /\ spans_data[1].text[2] = " "
    /\ is_heading_result = FALSE

----------------------------------------------------------------------------
(* Properties of the Section Assembler and of the body font *)

HeadingAt(i) == IsHeading(spans_data[i], body_font)
\* Heading lines followed by at least one non-heading line.
HeadingsWithBody ==
    { i \in 1..Len(spans_data) :
        HeadingAt(i) /\ i < Len(spans_data) /\ ~HeadingAt(i + 1) }
\* Words of the non-heading lines from line j up to the next heading.
RECURSIVE BodyWordsFrom(_)
BodyWordsFrom(j) ==
    IF j > Len(spans_data) \/ HeadingAt(j) THEN 0
    ELSE Len(SplitWords(spans_data[j].text)) + BodyWordsFrom(j + 1)

LineOrders(n) == { f \in [1..n -> 1..n] : \A i, j \in 1..n : f[i] = f[j] => i = j }

\* C9: the body font is the same for every order of the document's lines,
\* also when several fonts tie for the highest word count.
C9_BodyFontOrderIndependent ==
    pc = "tokenized" =>
        \A f \in LineOrders(Len(pdf)) :
            FirstMax(FontStats([i \in 1..Len(pdf) |-> pdf[f[i]]], <<>>)) = body_font

----------------------------------------------------------------------------
(* Properties of the Extractive Summarizer *)

\* The elements of a set of indices in increasing order.
Ascending(S) ==
    [k \in 1..Cardinality(S) |->
        CHOOSE x \in S : Cardinality({ y \in S : y < x }) = k - 1]

----------------------------------------------------------------------------
(* Properties of the written lists and of the selection *)

\* C14: the importance_rank values of extracted_sections are 1, 2, ..., k in
\* list order, and subsection_analysis has the same length k, its entry i
\* carrying the document and the page of extracted_sections entry i.
C14_DenseRanksAndAlignedLists ==
    /\ \A i \in 1..Len(output.extracted_sections) :
           output.extracted_sections[i].importance_rank = i
    /\ Len(output.subsection_analysis) = Len(output.extracted_sections)
    /\ \A i \in 1..Len(output.extracted_sections) :
           /\ output.subsection_analysis[i].document
                  = output.extracted_sections[i].document
           /\ output.subsection_analysis[i].page_number
                  = output.extracted_sections[i].page_number

\* Five entries of two documents and two pages were written after relaxation.
C14_Witness ==
    /\ pc = "done"
    /\ relaxed
    /\ Len(output.extracted_sections) = max_sections
    /\ \E i, j \in 1..max_sections :
          /\ output.extracted_sections[i].document
                 # output.extracted_sections[j].document
          /\ output.extracted_sections[i].page_number
                 # output.extracted_sections[j].page_number

\* C16: after pass 1 and after the relaxation pass no two selected sections
\* share the (document, lower-cased trimmed heading, page) key, and every
\* selected section has a trimmed heading of at least 3 characters.
C16_DistinctKeysAndLongHeadings ==
    /\ \A i, j \in 1..Len(final_sections) :
           i # j => KeyOf(final_sections[i].section) # KeyOf(final_sections[j].section)
    /\ \A i \in 1..Len(final_sections) :
           HeadingLongEnough(final_sections[i].section)

\* The list held two sections of one key and a heading of two characters once
\* trimmed, and the relaxation pass added to what pass 1 selected.
C16_Witness ==
    /\ pc = "done"
    /\ relaxed
    /\ Len(final_sections) > Pass1Accepted
    /\ Pass1Accepted >= 1
    /\ \E i \in 1..Len(ranked_sections) :
           ~HeadingLongEnough(ranked_sections[i].section)
    /\ \E i, j \in 1..Len(ranked_sections) :
           /\ i # j
           /\ KeyOf(ranked_sections[i].section) = KeyOf(ranked_sections[j].section)

\* C17: in the final order the scores never increase: a section with a smaller
\* importance_rank has a score at least that of a section with a larger one,
\* also when the relaxation pass has added sections.
C17_RankOrderIsScoreOrder ==
    pc = "done" =>
        \A i, j \in 1..Len(final_sections) :
            i < j => final_sections[i].score >= final_sections[j].score

----------------------------------------------------------------------------
(* Properties of the Relevance Scorer *)

ResultSections == { results[k].section : k \in 1..Len(results) }
InputWithHeading ==
    { scored_input[k] : k \in { j \in 1..Len(scored_input) :
          Strip(SectionPool[scored_input[j]].section_title) # <<>> } }

\* C11: score_sections returns a list in non-increasing order of score that
\* holds every input section with a non-empty heading exactly once and no
\* other section, whichever backends succeed or fail.
C11_SortedAndComplete ==
    pc = "scored" =>
        /\ \A k \in 1..(Len(results) - 1) : results[k].score >= results[k + 1].score
        /\ ResultSections = InputWithHeading
        /\ Len(results) = Cardinality(InputWithHeading)

\* Three sections, one of them without heading, were given, every TF-IDF
\* similarity was zero, and the results are in another order than the input.
C11_Witness ==
    /\ pc = "scored"
    /\ Len(scored_input) = 3
    /\ Len(results) = 2
    /\ \A k \in 1..Len(tfidf_scores) : tfidf_scores[k] = 0
    /\ results[1].score > results[2].score
    /\ results[1].section = clean_sections[2]

\* Index (from 0) of the section at position k among the sections of its
\* document, and the number of sections of that document.
DocIndex(k) ==
    Cardinality({ j \in 1..(k - 1) :
        SectionPool[clean_sections[j]].document
            = SectionPool[clean_sections[k]].document })
DocSize(k) ==
    Cardinality({ j \in 1..Len(clean_sections) :
        SectionPool[clean_sections[j]].document
            = SectionPool[clean_sections[k]].document })

\* C15: the position bonus of a section is max(0, (10 - page) / 10 * 0.1)
\* plus (N - i) / N * 0.05 with i its index in its own document's sections and
\* N the number of sections of that document, so that sections of other
\* documents before it in the list do not change it.
C15_OrderBonusPerDocument ==
    pc = "prepared" =>
        \A k \in 1..Len(clean_sections) :
            position_bonuses[k].num * 100 * DocSize(k)
                = position_bonuses[k].den
                    * (DocSize(k) * Max(0, 10 - SectionPool[clean_sections[k]].page)
                         + 5 * (DocSize(k) - DocIndex(k)))


\* The files of a listing that main read to the end: the PDFs whose
\* extraction did not raise, in the order of the listing.
RECURSIVE ProcessedFiles(_, _)
ProcessedFiles(files, failed) ==
    IF files = <<>> THEN <<>>
    ELSE IF FilePool[Head(files)].is_pdf /\ Head(files) \notin failed
         THEN <<Head(files)>> \o ProcessedFiles(Tail(files), failed)
         ELSE ProcessedFiles(Tail(files), failed)

RECURSIVE SectionsOfFiles(_)
SectionsOfFiles(files) ==
    IF files = <<>> THEN <<>>
    ELSE ValidSections(Head(files)) \o SectionsOfFiles(Tail(files))

NamesOfFiles(files) == [k \in 1..Len(files) |-> FilePool[files[k]].name]

\* C12: every run of main writes combined_output.json exactly once and
\* returns, whichever extractions failed, whether or not the embedding model
\* loaded or encoded, whether or not the vectorizer failed and whether or not
\* scoring or filtering raised; a document that failed is skipped and the
\* valid sections of all the others, in the order of the listing, are what
\* was processed.
C12_WritesOnceAndReturns ==
    /\ <>(pc = "returned" /\ writes = 1)
    /\ [](writes <= 1)
    /\ [](pc = "returned" =>
            /\ writes = 1
            /\ Len(combined_output) = 1
            /\ all_sections = SectionsOfFiles(ProcessedFiles(listing, failed_files))
            /\ document_list = NamesOfFiles(ProcessedFiles(listing, failed_files)))

\* C12 witness: main returned after one write although the model did not
\* load, one extraction failed and scoring raised, with the sections of
\* another document in the output.
C12_Witness ==
    /\ pc = "returned"
    /\ writes = 1
    /\ relevance_model = "None"
    /\ failed_files # {}
    /\ fallback
    /\ combined_output[1].extracted_sections # <<>>

\* C13: when main returns and no section was ranked, the output written has
\* no extracted section, no subsection analysis, and a metadata object with
\* the documents processed, the persona, the job and a timestamp.
C13_EmptyOutputKeepsMetadata ==
    (pc = "returned" /\ main_ranked = <<>>) =>
        /\ combined_output[1].extracted_sections = <<>>
        /\ combined_output[1].subsection_analysis = <<>>
        /\ DOMAIN combined_output[1].metadata =
               {"input_documents", "persona", "job_to_be_done",
                "processing_timestamp"}
        /\ combined_output[1].metadata.input_documents =
               NamesOfFiles(ProcessedFiles(listing, failed_files))
        /\ combined_output[1].metadata.persona = persona
        /\ combined_output[1].metadata.job_to_be_done = job

\* C13 witness: main returned without any valid section, after processing a
\* document and failing on another.
C13_Witness ==
    /\ pc = "returned"
    /\ all_sections = <<>>
    /\ main_ranked = <<>>
    /\ document_list # <<>>
    /\ failed_files # {}
    /\ writes = 1

\* The heading of an entry of extracted_sections as the duplicate filter
\* compares it.
OutputHeading(k) ==
    Strip(LowerStr(combined_output[1].extracted_sections[k].section_title))

\* C18: whatever path main took, the output holds no two sections whose
\* lower-cased headings have a token Jaccard similarity above 0.7.
C18_NoSimilarHeadingsInOutput ==
    pc = "returned" =>
        \A i, j \in 1..Len(combined_output[1].extracted_sections) :
            i # j => ~Overlaps(OutputHeading(i), OutputHeading(j), 7)

====
